---- MODULE Spec2Model ----
(***************************************************************************)
(* Model of translate/storage/aresource.py: AndroidResourceUnit, the       *)
(* unescape scan (decoder), escape (encoder) and the target property       *)
(* (gettarget / settarget) that applies them to the text of the unit's     *)
(* XML element.                                                            *)
(*                                                                         *)
(* A character is its Unicode code point, a string is a sequence of        *)
(* characters.  The scan buffer is the list `text`, whose last element is  *)
(* the EOF marker (None).  Indices into the buffer are 0-based as in the   *)
(* source; the list helpers below translate to TLA+ sequences.             *)
(***************************************************************************)
EXTENDS Integers, Sequences, FiniteSets, TLC

\* ------------------------------------------------------------------------
\* Characters and module constants
\* ------------------------------------------------------------------------
None == -1
EOF == None
Tab == 9
Newline == 10
Space == 32
DQuote == 34
Percent == 37
Amp == 38
SQuote == 39
Semi == 59
Lt == 60
Gt == 62
At == 64
Backslash == 92
Zero == 48
Ch_g == 103
Ch_l == 108
Ch_n == 110
Ch_t == 116
Ch_u == 117
WHITESPACE == {Space, Newline, Tab}

\* The value of a text that is absent (Python None where a string is
\* expected).  No string holds None, so it differs from every string,
\* the empty one included.
Absent == <<None>>

\* ------------------------------------------------------------------------
\* Python list and string primitives used by the source
\* ------------------------------------------------------------------------
Min2(a, b) == IF a < b THEN a ELSE b

Max2(a, b) == IF a > b THEN a ELSE b

\* Slice bound normalisation: a negative bound counts from the end, and
\* bounds are clamped to [0, n].
SliceBound(k, n) == IF k < 0 THEN Max2(k + n, 0) ELSE Min2(k, n)

\* s[lo:hi]
GetSlice(s, lo, hi) ==
    LET l == SliceBound(lo, Len(s))
        h == SliceBound(hi, Len(s))
    IN  IF h <= l THEN <<>> ELSE SubSeq(s, l + 1, h)

\* s[lo:hi] = r
SetSlice(s, lo, hi, r) ==
    LET l == SliceBound(lo, Len(s))
        h == Max2(SliceBound(hi, Len(s)), l)
    IN  SubSeq(s, 1, l) \o r \o SubSeq(s, h + 1, Len(s))

\* Position of s[k] as a TLA+ index (a negative k counts from the end).
ItemPos(s, k) == IF k < 0 THEN k + Len(s) + 1 ELSE k + 1

\* s[k]
GetItem(s, k) == s[ItemPos(s, k)]

\* s[k] = v
SetItem(s, k, v) == [s EXCEPT ![ItemPos(s, k)] = v]

\* del s[k]
DelItem(s, k) == SubSeq(s, 1, ItemPos(s, k) - 1) \o SubSeq(s, ItemPos(s, k) + 1, Len(s))

\* str.replace(old, new) for a one-character old.
RECURSIVE replace(_, _, _)
replace(s, old, new) ==
    IF s = <<>> THEN <<>>
    ELSE (IF Head(s) = old THEN new ELSE <<Head(s)>>) \o replace(Tail(s), old, new)

\* str.startswith(ch) for a one-character prefix.
startswith(s, ch) == Len(s) > 0 /\ s[1] = ch

IsDigit(c) == c \in 48..57

IsHexDigit(c) == IsDigit(c) \/ c \in 65..70 \/ c \in 97..102

IsAlnumChar(c) == IsDigit(c) \/ c \in 65..90 \/ c \in 97..122

\* str.isalnum()
isalnum(s) == Len(s) > 0 /\ \A k \in 1..Len(s) : IsAlnumChar(s[k])

HexValue(c) == IF IsDigit(c) THEN c - 48 ELSE IF c \in 65..70 THEN c - 55 ELSE c - 87

RECURSIVE HexNumber(_)
HexNumber(s) == IF s = <<>> THEN 0 ELSE 16 * HexNumber(SubSeq(s, 1, Len(s) - 1)) + HexValue(s[Len(s)])

\* The digits int(s, 16) reads: an "0x" or "0X" prefix is part of the
\* base-16 literal syntax and is skipped.
HexBody(s) == IF Len(s) >= 2 /\ s[1] = Zero /\ s[2] \in {88, 120} THEN SubSeq(s, 3, Len(s)) ELSE s

\* int(s, 16) does not raise ValueError (s alphanumeric: no sign, no blanks)
IntBase16Valid(s) == Len(HexBody(s)) > 0 /\ \A k \in 1..Len(HexBody(s)) : IsHexDigit(HexBody(s)[k])

\* int(s, 16)
IntBase16(s) == HexNumber(HexBody(s))

\* unichr(n): the character with code point n (a character is represented
\* by its code point; four hex digits never leave unichr's range).
unichr(n) == n

\* ------------------------------------------------------------------------
\* escape (encoder)
\* ------------------------------------------------------------------------
\* escape returning '' for an absent text.
escape_NoneToEmpty(t) ==
    IF t = Absent THEN <<>>
    ELSE LET t1 == replace(t, Backslash, <<Backslash, Backslash>>)
             t2 == replace(t1, Newline, <<Backslash, Ch_n>>)
             t3 == replace(t2, Tab, <<Backslash, Ch_t>>)
             t4 == replace(t3, SQuote, <<Backslash, SQuote>>)
             t5 == replace(t4, DQuote, <<Backslash, DQuote>>)
         IN  IF startswith(t5, At) THEN <<Backslash, At>> \o GetSlice(t5, 1, Len(t5)) ELSE t5

\* escape doubling the backslashes last, after the other substitutions.
escape_BackslashLast(t) ==
    IF t = Absent THEN Absent
    ELSE LET t1 == replace(t, Newline, <<Backslash, Ch_n>>)
             t2 == replace(t1, Tab, <<Backslash, Ch_t>>)
             t3 == replace(t2, SQuote, <<Backslash, SQuote>>)
             t4 == replace(t3, DQuote, <<Backslash, DQuote>>)
             t5 == replace(t4, Backslash, <<Backslash, Backslash>>)
         IN  IF startswith(t5, At) THEN <<Backslash, At>> \o GetSlice(t5, 1, Len(t5)) ELSE t5

\* escape that leaves the backslashes of the text single.
escape_NoBackslash(t) ==
    IF t = Absent THEN Absent
    ELSE LET t2 == replace(t, Newline, <<Backslash, Ch_n>>)
             t3 == replace(t2, Tab, <<Backslash, Ch_t>>)
             t4 == replace(t3, SQuote, <<Backslash, SQuote>>)
             t5 == replace(t4, DQuote, <<Backslash, DQuote>>)
         IN  IF startswith(t5, At) THEN <<Backslash, At>> \o GetSlice(t5, 1, Len(t5)) ELSE t5

escape(t) ==
    IF t = Absent THEN Absent
    ELSE LET t1 == replace(t, Backslash, <<Backslash, Backslash>>)
             t2 == replace(t1, Newline, <<Backslash, Ch_n>>)
             t3 == replace(t2, Tab, <<Backslash, Ch_t>>)
             t4 == replace(t3, SQuote, <<Backslash, SQuote>>)
             t5 == replace(t4, DQuote, <<Backslash, DQuote>>)
         IN  IF startswith(t5, At) THEN <<Backslash, At>> \o GetSlice(t5, 1, Len(t5)) ELSE t5

\* ------------------------------------------------------------------------
\* unescape (decoder): one iteration of the scan loop, section by section.
\* A scan state s is the record of the locals of unescape, with s.error
\* the exception raised by the iteration (NoError when none).
\* ------------------------------------------------------------------------
NoError == [type |-> "none", msg |-> "", args |-> <<>>]

\* The replacement of '<' and '>' before the scan.
EntityEncode(t) == replace(replace(t, Lt, <<Amp, Ch_l, Ch_t, Semi>>), Gt, <<Amp, Ch_g, Ch_t, Semi>>)

\* Whitespace handling that forgets to reset the count after a single
\* whitespace character.
HandleWhitespace_NoReset(s, c) ==
    IF c # EOF /\ c \in WHITESPACE THEN [s EXCEPT !.space_count = @ + 1]
    ELSE IF s.space_count > 1 THEN
        IF ~s.active_quote \/ c = EOF
        THEN [s EXCEPT !.text = SetSlice(s.text, s.i - s.space_count, s.i, <<Space>>),
                       !.i = s.i - (s.space_count - 1),
                       !.space_count = 0]
        ELSE [s EXCEPT !.space_count = 0]
    ELSE IF s.space_count = 1 THEN
        [s EXCEPT !.text = SetItem(s.text, s.i - 1, Space)]
    ELSE [s EXCEPT !.space_count = 0]

\* Whitespace handling that leaves a single tab or newline as it is.
HandleWhitespace_KeepSingle(s, c) ==
    IF c # EOF /\ c \in WHITESPACE THEN [s EXCEPT !.space_count = @ + 1]
    ELSE IF s.space_count > 1 THEN
        IF ~s.active_quote \/ c = EOF
        THEN [s EXCEPT !.text = SetSlice(s.text, s.i - s.space_count, s.i, <<Space>>),
                       !.i = s.i - (s.space_count - 1),
                       !.space_count = 0]
        ELSE [s EXCEPT !.space_count = 0]
    ELSE [s EXCEPT !.space_count = 0]

\* Whitespace handling that collapses inside an open quote as well.
HandleWhitespace_IgnoreQuote(s, c) ==
    IF c # EOF /\ c \in WHITESPACE THEN [s EXCEPT !.space_count = @ + 1]
    ELSE IF s.space_count > 1 THEN
        [s EXCEPT !.text = SetSlice(s.text, s.i - s.space_count, s.i, <<Space>>),
                  !.i = s.i - (s.space_count - 1),
                  !.space_count = 0]
    ELSE IF s.space_count = 1 THEN
        [s EXCEPT !.text = SetItem(s.text, s.i - 1, Space), !.space_count = 0]
    ELSE [s EXCEPT !.space_count = 0]

\* Whitespace handling that moves the cursor back by the whole run, onto
\* the character it has just read.
HandleWhitespace_Rescan(s, c) ==
    IF c # EOF /\ c \in WHITESPACE THEN [s EXCEPT !.space_count = @ + 1]
    ELSE IF s.space_count > 1 THEN
        IF ~s.active_quote \/ c = EOF
        THEN [s EXCEPT !.text = SetSlice(s.text, s.i - s.space_count, s.i, <<Space>>),
                       !.i = s.i - s.space_count,
                       !.space_count = 0]
        ELSE [s EXCEPT !.space_count = 0]
    ELSE IF s.space_count = 1 THEN
        [s EXCEPT !.text = SetItem(s.text, s.i - 1, Space), !.space_count = 0]
    ELSE [s EXCEPT !.space_count = 0]

\* Whitespace handling without the case of the end of the text under an
\* open quote.
HandleWhitespace_NoEofCase(s, c) ==
    IF c # EOF /\ c \in WHITESPACE THEN [s EXCEPT !.space_count = @ + 1]
    ELSE IF s.space_count > 1 THEN
        IF ~s.active_quote
        THEN [s EXCEPT !.text = SetSlice(s.text, s.i - s.space_count, s.i, <<Space>>),
                       !.i = s.i - (s.space_count - 1),
                       !.space_count = 0]
        ELSE [s EXCEPT !.space_count = 0]
    ELSE IF s.space_count = 1 THEN
        [s EXCEPT !.text = SetItem(s.text, s.i - 1, Space), !.space_count = 0]
    ELSE [s EXCEPT !.space_count = 0]

\* "Handle whitespace collapsing"
HandleWhitespace(s, c) ==
    IF c # EOF /\ c \in WHITESPACE THEN [s EXCEPT !.space_count = @ + 1]
    ELSE IF s.space_count > 1 THEN
        IF ~s.active_quote \/ c = EOF
        THEN [s EXCEPT !.text = SetSlice(s.text, s.i - s.space_count, s.i, <<Space>>),
                       !.i = s.i - (s.space_count - 1),
                       !.space_count = 0]
        ELSE [s EXCEPT !.space_count = 0]
    ELSE IF s.space_count = 1 THEN
        [s EXCEPT !.text = SetItem(s.text, s.i - 1, Space), !.space_count = 0]
    ELSE [s EXCEPT !.space_count = 0]

\* Quote handling that takes an escaped double quote for a structural one.
HandleQuotes_IgnoreEscape(s, c) ==
    IF c = DQuote
    THEN [s EXCEPT !.active_quote = ~@, !.text = DelItem(s.text, s.i), !.i = @ - 1]
    ELSE s

\* Quote handling that does not step back after removing the quote.
HandleQuotes_NoBackstep(s, c) ==
    IF c = DQuote /\ ~s.active_escape
    THEN [s EXCEPT !.active_quote = ~@, !.text = DelItem(s.text, s.i)]
    ELSE s

\* "Handle quotes"
HandleQuotes(s, c) ==
    IF c = DQuote /\ ~s.active_escape
    THEN [s EXCEPT !.active_quote = ~@, !.text = DelItem(s.text, s.i), !.i = @ - 1]
    ELSE s

\* Detection of a String.format percent sign
HandlePercent(s, c) ==
    IF c = Percent /\ ~s.active_escape THEN [s EXCEPT !.active_percent = ~@]
    ELSE IF ~s.active_escape /\ s.active_percent
         THEN [s EXCEPT !.formatted = TRUE, !.active_percent = FALSE]
         ELSE s

\* Unicode capture whose slice may reach the EOF marker.
UnicodeEscape_SliceToEnd(s) ==
    LET max_slice == Min2(s.i + 5, Len(s.text))
        captured == GetSlice(s.text, s.i + 1, max_slice)
        codepoint_str == IF Len(captured) < 4
                         THEN [k \in 1..(4 - Len(captured)) |-> Zero] \o captured
                         ELSE captured
    IN  IF ~isalnum(codepoint_str) \/ ~IntBase16Valid(codepoint_str)
        THEN [s EXCEPT !.error = [type |-> "ValueError",
                                  msg |-> "bad unicode escape sequence",
                                  args |-> <<>>]]
        ELSE [s EXCEPT !.text = SetSlice(s.text, s.i - 1, max_slice,
                                         <<unichr(IntBase16(codepoint_str))>>),
                       !.i = @ - 1]

\* Unicode replacement that takes one element more than it captured.
UnicodeEscape_ReplaceOneMore(s) ==
    LET max_slice == Min2(s.i + 5, Len(s.text) - 1)
        captured == GetSlice(s.text, s.i + 1, max_slice)
        codepoint_str == IF Len(captured) < 4
                         THEN [k \in 1..(4 - Len(captured)) |-> Zero] \o captured
                         ELSE captured
    IN  IF ~isalnum(codepoint_str) \/ ~IntBase16Valid(codepoint_str)
        THEN [s EXCEPT !.error = [type |-> "ValueError",
                                  msg |-> "bad unicode escape sequence",
                                  args |-> <<>>]]
        ELSE [s EXCEPT !.text = SetSlice(s.text, s.i - 1, max_slice + 1,
                                         <<unichr(IntBase16(codepoint_str))>>),
                       !.i = @ - 1]

\* The branch for an escaped 'u': capture up to 4 characters, stopping
\* before the EOF marker, pad with zeros, convert, replace.
UnicodeEscape(s) ==
    LET max_slice == Min2(s.i + 5, Len(s.text) - 1)
        captured == GetSlice(s.text, s.i + 1, max_slice)
        codepoint_str == IF Len(captured) < 4
                         THEN [k \in 1..(4 - Len(captured)) |-> Zero] \o captured
                         ELSE captured
    IN  IF ~isalnum(codepoint_str) \/ ~IntBase16Valid(codepoint_str)
        THEN [s EXCEPT !.error = [type |-> "ValueError",
                                  msg |-> "bad unicode escape sequence",
                                  args |-> <<>>]]
        ELSE [s EXCEPT !.text = SetSlice(s.text, s.i - 1, max_slice,
                                         <<unichr(IntBase16(codepoint_str))>>),
                       !.i = @ - 1]

\* The branch for any other escaped character.  Building the message
\* reads the variable `name`, which is bound neither in unescape nor in
\* the module nor in the builtins: the read raises NameError before the
\* ValueError is constructed.
UnsupportedEscape(s) ==
    [s EXCEPT !.error = [type |-> "NameError", msg |-> "name", args |-> <<>>]]

\* Escape handling in which a double backslash leaves the escape open.
HandleEscapes_KeepOpen(s, c) ==
    IF c = Backslash THEN
        IF ~s.active_escape THEN [s EXCEPT !.active_escape = TRUE]
        ELSE [s EXCEPT !.text = DelItem(s.text, s.i), !.i = @ - 1]
    ELSE IF s.active_escape THEN
        LET r == IF c = EOF THEN s
                 ELSE IF c = Ch_n
                 THEN [s EXCEPT !.text = SetSlice(s.text, s.i - 1, s.i + 1, <<Newline>>), !.i = @ - 1]
                 ELSE IF c = Ch_t
                 THEN [s EXCEPT !.text = SetSlice(s.text, s.i - 1, s.i + 1, <<Tab>>), !.i = @ - 1]
                 ELSE IF c \in {DQuote, SQuote, At}
                 THEN [s EXCEPT !.text = SetSlice(s.text, s.i - 1, s.i, <<>>), !.i = @ - 1]
                 ELSE IF c = Ch_u THEN UnicodeEscape(s)
                 ELSE UnsupportedEscape(s)
        IN  IF r.error = NoError THEN [r EXCEPT !.active_escape = FALSE] ELSE r
    ELSE s

\* "Handle escapes"
HandleEscapes(s, c) ==
    IF c = Backslash THEN
        IF ~s.active_escape THEN [s EXCEPT !.active_escape = TRUE]
        ELSE [s EXCEPT !.text = DelItem(s.text, s.i), !.i = @ - 1, !.active_escape = FALSE]
    ELSE IF s.active_escape THEN
        LET r == IF c = EOF THEN s
                 ELSE IF c = Ch_n
                 THEN [s EXCEPT !.text = SetSlice(s.text, s.i - 1, s.i + 1, <<Newline>>), !.i = @ - 1]
                 ELSE IF c = Ch_t
                 THEN [s EXCEPT !.text = SetSlice(s.text, s.i - 1, s.i + 1, <<Tab>>), !.i = @ - 1]
                 ELSE IF c \in {DQuote, SQuote, At}
                 THEN [s EXCEPT !.text = SetSlice(s.text, s.i - 1, s.i, <<>>), !.i = @ - 1]
                 ELSE IF c = Ch_u THEN UnicodeEscape(s)
                 ELSE UnsupportedEscape(s)
        IN  IF r.error = NoError THEN [r EXCEPT !.active_escape = FALSE] ELSE r
    ELSE s

\* The body of the while loop up to, not including, i += 1: the four
\* sections in sequence, each on the scan state the one before left (s1,
\* s2, s3), for the character c read at the top of the iteration.
LoopBody(s) ==
    LET c == GetItem(s.text, s.i)
    IN  CHOOSE r \in {HandleEscapes(s3, c) :
                        s3 \in {HandlePercent(s2, c) :
                            s2 \in {HandleQuotes(s1, c) :
                                s1 \in {HandleWhitespace(s, c)}}}} : TRUE

\* ------------------------------------------------------------------------
\* Bounds and the inputs drawn from them
\* ------------------------------------------------------------------------
\* Characters that occur in inputs only.
Sample == [a |-> 97, b |-> 98, f |-> 102, o |-> 111, q |-> 113, x |-> 120,
           F |-> 70, one |-> 49, four |-> 52]

MaxLen == 3
MaxWsLen == 5
MaxPre == 1
MaxPost == 2
MaxUniTail == 5
MaxRun == 2

Strings(A, n) == UNION {[1..k -> A] : k \in 0..n}

Alphabet == {Backslash, DQuote, SQuote, Space, Tab, Newline, At, Percent, Lt, Gt,
             Ch_n, Ch_u, Sample.a}

\* Texts over the whole alphabet.
GeneralTexts == Strings(Alphabet, MaxLen)

\* Longer texts of whitespace, quotes and a letter.
WhitespaceTexts == Strings({DQuote, Space, Tab, Newline, Sample.a}, MaxWsLen)

\* A backslash followed by each kind of character, in a context.
EscapeTexts ==
    {pre \o <<Backslash, c>> \o post :
        pre \in Strings({Space, DQuote, Sample.a}, MaxPre),
        c \in {Ch_n, Ch_t, DQuote, SQuote, At, Backslash, Ch_u, Sample.q, Percent, Space, Sample.a},
        post \in Strings({Ch_n, Ch_u, Space, DQuote, Percent, Sample.a}, MaxPost)}

\* A unicode escape followed by hex digits and other characters.
UnicodeTexts ==
    {pre \o <<Backslash, Ch_u>> \o tail :
        pre \in Strings({Sample.a}, MaxPre),
        tail \in Strings({Zero, Sample.four, Sample.F, Sample.x, Space}, MaxUniTail)}

\* The documented examples of decoding.
ExampleTexts ==
    {<<Sample.a, Space, Space, Space, Sample.b>>,
     <<DQuote, Sample.a, Space, Space, Space, Sample.b, DQuote>>,
     <<DQuote, Sample.a, Space, Space, Space, Sample.b>>,
     <<Sample.a, Backslash, Ch_n, Sample.b>>,
     <<Sample.a, Backslash, Ch_t, Sample.b>>,
     <<Backslash, At, Sample.f, Sample.o, Sample.o>>,
     <<Backslash, Ch_u, Zero, Zero, Sample.four, Sample.one>>,
     <<Backslash, Ch_u, Sample.four, Sample.one>>,
     <<Sample.a, Backslash, Sample.q, Sample.b>>}

\* A quote that is never closed, a run of whitespace inside it and a run
\* before the end of the text.
UnterminatedTexts ==
    {<<DQuote>> \o inner \o <<Sample.a>> \o trailing :
        inner \in Strings(WHITESPACE, MaxRun),
        trailing \in Strings(WHITESPACE, MaxRun)}

\* What the text of a <string> element read from a file can be.
StoredTexts == GeneralTexts \cup WhitespaceTexts \cup EscapeTexts \cup UnicodeTexts
               \cup UnterminatedTexts \cup ExampleTexts \cup {Absent}

\* What a caller can assign to the target property.
LogicalTexts == GeneralTexts \cup {Absent}

ResourceIds == {"str1"}

\* ------------------------------------------------------------------------
\* State
\* ------------------------------------------------------------------------
VARIABLES
    id,             \* xmlelement.get("name")
    xmltext,        \* xmlelement.text
    logical,        \* the value last assigned to the target property
    written,        \* TRUE once settarget has written xmlelement.text
    pc,             \* "idle", "scan" (inside the loop of unescape), "returned", "raised"
    text,           \* locals of unescape
    i,
    space_count,
    active_quote,
    active_percent,
    active_escape,
    formatted,
    result,         \* the value returned by gettarget
    error,          \* the exception raised by gettarget
    iterations      \* the number of iterations of the loop made by the call

locals == <<text, i, space_count, active_quote, active_percent, active_escape, formatted>>

vars == <<id, xmltext, logical, written, pc, text, i, space_count, active_quote,
          active_percent, active_escape, formatted, result, error, iterations>>

\* The locals of unescape as a scan state.
Scan == [text |-> text, i |-> i, space_count |-> space_count,
         active_quote |-> active_quote, active_percent |-> active_percent,
         active_escape |-> active_escape, formatted |-> formatted, error |-> NoError]

\* Outside a call of unescape its locals do not exist.
NoLocals == <<<<>>, 0, 0, FALSE, FALSE, FALSE, FALSE>>

\* locals' = v, for a tuple v of values of the locals.
SetLocals(v) ==
    /\ text' = v[1]
    /\ i' = v[2]
    /\ space_count' = v[3]
    /\ active_quote' = v[4]
    /\ active_percent' = v[5]
    /\ active_escape' = v[6]
    /\ formatted' = v[7]

\* A unit built from an element of a parsed file (createfromxmlElement) or
\* a new unit (__init__), whose element has no text.
Init ==
    /\ id \in ResourceIds
    /\ xmltext \in StoredTexts
    /\ logical = Absent
    /\ written = FALSE
    /\ pc = "idle"
    /\ text = NoLocals[1]
    /\ i = NoLocals[2]
    /\ space_count = NoLocals[3]
    /\ active_quote = NoLocals[4]
    /\ active_percent = NoLocals[5]
    /\ active_escape = NoLocals[6]
    /\ formatted = NoLocals[7]
    /\ result = Absent
    /\ error = NoError
    /\ iterations = 0

\* unit.target = target, on a unit whose element has no text yet (the
\* assignment set_base_resource makes to a new unit).
settarget ==
    /\ pc # "scan"
    /\ xmltext = Absent
    /\ \E target \in LogicalTexts :
        /\ xmltext' = escape(target)
        /\ logical' = target
    /\ written' = TRUE
    /\ pc' = "idle"
    /\ SetLocals(NoLocals)
    /\ result' = Absent
    /\ error' = NoError
    /\ iterations' = 0
    /\ UNCHANGED id

\* unit.target read: unescape(xmlelement.text) up to the first test of the
\* loop condition.
gettarget ==
    /\ pc # "scan"
    /\ error' = NoError
    /\ iterations' = 0
    /\ IF xmltext = Absent
       THEN /\ pc' = "returned"
            /\ result' = Absent
            /\ SetLocals(NoLocals)
       ELSE /\ pc' = "scan"
            /\ result' = Absent
            /\ SetLocals(<<EntityEncode(xmltext) \o <<EOF>>, 0, 0, FALSE, FALSE, FALSE, FALSE>>)
    /\ UNCHANGED <<id, xmltext, logical, written>>

\* One iteration of the while loop.
ScanStep ==
    /\ pc = "scan"
    /\ i < Len(text)
    /\ \E s \in {LoopBody(Scan)} :
           /\ SetLocals(<<s.text, IF s.error = NoError THEN s.i + 1 ELSE s.i, s.space_count,
                          s.active_quote, s.active_percent, s.active_escape, s.formatted>>)
           /\ error' = s.error
           /\ pc' = IF s.error = NoError THEN "scan" ELSE "raised"
    /\ iterations' = iterations + 1
    /\ UNCHANGED <<id, xmltext, logical, written, result>>

\* The loop condition fails: join the buffer without the EOF marker.
unescapeReturn ==
    /\ pc = "scan"
    /\ ~(i < Len(text))
    /\ result' = GetSlice(text, 0, -1)
    /\ pc' = "returned"
    /\ UNCHANGED <<id, xmltext, logical, written, locals, error, iterations>>

Next == settarget \/ gettarget \/ ScanStep \/ unescapeReturn

Spec == Init /\ [][Next]_vars

\* A call of gettarget runs on: an iteration that can be made is made, and
\* the return is made when the loop condition fails.
FairSpec == Spec /\ WF_vars(ScanStep) /\ WF_vars(unescapeReturn)

TypeOK ==
    /\ pc \in {"idle", "scan", "returned", "raised"}
    /\ i \in Int
    /\ space_count \in Nat

\* ------------------------------------------------------------------------
\* The documented decoding, as a forward pass with an output accumulator
\* ------------------------------------------------------------------------
Range(s) == {s[k] : k \in 1..Len(s)}

HexDigits == (48..57) \cup (65..70) \cup (97..102)

DigitOf(c) == IF c \in 48..57 THEN c - 48 ELSE IF c \in 65..70 THEN c - 65 + 10 ELSE c - 97 + 10

\* The code point written by up to four hex digits (missing leading
\* digits count as zeros).
RECURSIVE CodePointOf(_, _)
CodePointOf(digits, acc) ==
    IF digits = <<>> THEN acc ELSE CodePointOf(Tail(digits), acc * 16 + DigitOf(Head(digits)))

\* A pending run of literal whitespace met by a character: verbatim inside
\* a quoted span, one space outside.
Flush(run, quoted) == IF run = <<>> THEN <<>> ELSE IF quoted THEN run ELSE <<Space>>

\* A pending run met by end of input: a run of 2 or more is one space even
\* when a quote is still open.
FlushEnd(run, quoted) ==
    IF run = <<>> THEN <<>> ELSE IF quoted /\ Len(run) = 1 THEN run ELSE <<Space>>

\* Forward(t, k, quoted, run, out, feat): decode t from position k on.  The
\* result is the output and the features met: "quote", "quoted_ws" (literal
\* whitespace while a quote is open), "quoted_single", "unterminated",
\* "escape", "unicode",
\* and, where decoding stops, "lone_backslash", "malformed", "unsupported".
\* The feature of a run of one tab or newline inside a quoted span.
QuotedSingle(run, quoted) ==
    IF quoted /\ Len(run) = 1 /\ run[1] # Space THEN {"quoted_single"} ELSE {}

RECURSIVE Forward(_, _, _, _, _, _)
Forward(t, k, quoted, run, out, feat) ==
    IF k > Len(t)
    THEN [out |-> out \o FlushEnd(run, quoted),
          feat |-> feat \cup QuotedSingle(run, quoted)
                        \cup (IF quoted THEN {"unterminated"} ELSE {})]
    ELSE IF t[k] \in WHITESPACE
    THEN Forward(t, k + 1, quoted, Append(run, t[k]), out,
                 feat \cup (IF quoted THEN {"quoted_ws"} ELSE {}))
    ELSE LET o == out \o Flush(run, quoted)
             f == feat \cup QuotedSingle(run, quoted)
         IN  IF t[k] = DQuote
             THEN Forward(t, k + 1, ~quoted, <<>>, o, f \cup {"quote"})
             ELSE IF t[k] # Backslash
             THEN Forward(t, k + 1, quoted, <<>>, Append(o, t[k]), f)
             ELSE IF k = Len(t)
             THEN [out |-> o,
                   feat |-> f \cup {"lone_backslash"}
                                 \cup (IF quoted THEN {"unterminated"} ELSE {})]
             ELSE IF t[k + 1] = Ch_n
             THEN Forward(t, k + 2, quoted, <<>>, Append(o, Newline), f \cup {"escape"})
             ELSE IF t[k + 1] = Ch_t
             THEN Forward(t, k + 2, quoted, <<>>, Append(o, Tab), f \cup {"escape"})
             ELSE IF t[k + 1] \in {DQuote, SQuote, At, Backslash}
             THEN Forward(t, k + 2, quoted, <<>>, Append(o, t[k + 1]), f \cup {"escape"})
             ELSE IF t[k + 1] = Ch_u
             THEN LET digits == SubSeq(t, k + 2, IF k + 5 < Len(t) THEN k + 5 ELSE Len(t))
                  IN  IF Range(digits) \subseteq HexDigits
                      THEN Forward(t, k + 2 + Len(digits), quoted, <<>>,
                                   Append(o, CodePointOf(digits, 0)), f \cup {"unicode"})
                      ELSE [out |-> o, feat |-> f \cup {"malformed"}]
             ELSE [out |-> o, feat |-> f \cup {"unsupported"}]

\* The documented decoding of the stored text of the unit.
Decoded == Forward(EntityEncode(xmltext), 1, FALSE, <<>>, <<>>, {})

\* ------------------------------------------------------------------------
\* C1: round trip on the restricted domain
\* ------------------------------------------------------------------------
RestrictedDomain(s) ==
    /\ Range(s) \cap {Backslash, DQuote, SQuote, Newline, Tab} = {}
    /\ ~startswith(s, At)

NoAdjacentSpaces(s) == \A k \in 1..(Len(s) - 1) : ~(s[k] = Space /\ s[k + 1] = Space)

\* C1 as stated: a logical string s with none of backslash, double quote,
\* single quote, newline, tab, and not starting with '@', is read back
\* unchanged after it was written: unescape(escape(s)) = s.
C1_RoundTripAsStated ==
    (pc = "returned" /\ written /\ logical # Absent /\ RestrictedDomain(logical))
        => result = logical

\* C1 amended: the same, for the strings of that domain that also hold no
\* '<', no '>' and no two adjacent spaces.
C1_RoundTrip ==
    (/\ pc = "returned" /\ written /\ logical # Absent
     /\ RestrictedDomain(logical)
     /\ Range(logical) \cap {Lt, Gt} = {}
     /\ NoAdjacentSpaces(logical))
        => result = logical

C1_Witness ==
    /\ pc = "returned" /\ written /\ logical # Absent
    /\ RestrictedDomain(logical)
    /\ Range(logical) \cap {Lt, Gt} = {}
    /\ NoAdjacentSpaces(logical)
    /\ Len(logical) >= 3
    /\ Space \in Range(logical)
    /\ result = logical

\* ------------------------------------------------------------------------
\* C2: absence propagation
\* ------------------------------------------------------------------------
\* C2: an absent text is decoded to the absent value without a scan and
\* without an error, and encoded to the absent value; the empty string is
\* encoded and decoded to the empty string; neither is turned into the other.
C2_AbsencePropagation ==
    /\ written => ((logical = Absent) <=> (xmltext = Absent))
    /\ written => ((logical = <<>>) <=> (xmltext = <<>>))
    /\ xmltext = Absent => pc \in {"idle", "returned"} /\ locals = NoLocals /\ error = NoError
    /\ pc = "returned" => ((xmltext = Absent) <=> (result = Absent))
    /\ (pc = "returned" /\ xmltext = <<>>) => result = <<>>

C2_Witness ==
    /\ pc = "returned"
    /\ written
    /\ logical = Absent
    /\ xmltext = Absent
    /\ result = Absent

\* ------------------------------------------------------------------------
\* C3: unsupported escape
\* ------------------------------------------------------------------------
\* The scan stands at a character that follows an escape-opening backslash
\* and is none of n, t, double quote, single quote, '@', backslash, u.
AtUnsupportedEscape ==
    /\ active_escape
    /\ i < Len(text)
    /\ GetItem(text, i) \notin {Ch_n, Ch_t, DQuote, SQuote, At, Backslash, Ch_u, EOF}

\* C3: decoding stops there with an invalid-escape (value) error that
\* names the identifier of the resource and the two-character sequence,
\* and returns nothing.
C3_UnsupportedEscapeRejected ==
    (pc = "raised" /\ AtUnsupportedEscape)
        => /\ error.type = "ValueError"
           /\ error.args = <<id, <<Backslash, GetItem(text, i)>>>>
           /\ result = Absent

\* ------------------------------------------------------------------------
\* C4: malformed unicode escape
\* ------------------------------------------------------------------------
\* C4: a text in which the characters captured after an escaped 'u' are
\* not all hex digits is never decoded: the scan raises the malformed
\* unicode escape error.
C4_MalformedUnicodeRejected ==
    (xmltext # Absent /\ "malformed" \in Decoded.feat)
        => /\ pc # "returned"
           /\ pc = "raised" => error.type = "ValueError" /\ error.msg = "bad unicode escape sequence"

\* ------------------------------------------------------------------------
\* C5: whitespace collapsing outside quotes
\* ------------------------------------------------------------------------
\* The stored text has no backslash and no literal whitespace inside a
\* quoted span.
C5_Case ==
    /\ xmltext # Absent
    /\ Backslash \notin Range(xmltext)
    /\ "quoted_ws" \notin Decoded.feat

\* C5: such a text is decoded without error to its characters in order,
\* with each maximal run of literal whitespace replaced by one space (a
\* run of 2 or more collapsed, a single tab or newline turned into a space,
\* a single space kept) and the structural quotes removed.
C5_CollapseOutsideQuotes ==
    C5_Case => /\ pc # "raised"
               /\ pc = "returned" => result = Decoded.out

C5_Witness ==
    /\ pc = "returned"
    /\ C5_Case
    /\ \E k \in 1..(Len(xmltext) - 2) :
        /\ xmltext[k] \in WHITESPACE
        /\ xmltext[k + 1] \in WHITESPACE
        /\ xmltext[k + 2] \notin WHITESPACE
    /\ \E k \in 2..(Len(xmltext) - 1) :
        /\ xmltext[k - 1] \notin WHITESPACE
        /\ xmltext[k] \in {Tab, Newline}
        /\ xmltext[k + 1] \notin WHITESPACE
    /\ Len(result) < Len(xmltext)
    /\ result = Decoded.out

\* ------------------------------------------------------------------------
\* C6: quote preservation
\* ------------------------------------------------------------------------
\* C6: in a text without backslashes whose quotes are all closed, the
\* literal whitespace inside the quoted spans is decoded verbatim, in runs
\* of any length (the whitespace outside them is collapsed).
C6_QuotePreservation ==
    (/\ xmltext # Absent
     /\ Backslash \notin Range(xmltext)
     /\ "quoted_ws" \in Decoded.feat
     /\ "unterminated" \notin Decoded.feat
     /\ pc = "returned")
        => result = Decoded.out

\* ------------------------------------------------------------------------
\* C7: the example of an unterminated quote
\* ------------------------------------------------------------------------
UnterminatedExample == <<DQuote, Sample.a, Space, Space, Space, Sample.b>>

\* C7 as stated: "a   b with the quote left open is decoded to 'a b'.
C7_ExampleAsStated ==
    (pc = "returned" /\ xmltext = UnterminatedExample)
        => result = <<Sample.a, Space, Sample.b>>

\* C7 amended: "a   b with the quote left open is decoded to 'a   b': the
\* run is followed by 'b' while the quote is open, and is kept.
C7_Example ==
    (pc = "returned" /\ xmltext = UnterminatedExample)
        => result = <<Sample.a, Space, Space, Space, Sample.b>>

C7_Witness ==
    /\ pc = "returned"
    /\ xmltext = UnterminatedExample
    /\ active_quote
    /\ Len(result) = 5

\* ------------------------------------------------------------------------
\* C8: escape resolution
\* ------------------------------------------------------------------------
\* The stored text has escapes, all of them of n, t, double quote, single
\* quote, '@' or backslash, and no literal whitespace inside a quoted span.
C8_Case ==
    /\ xmltext # Absent
    /\ "escape" \in Decoded.feat
    /\ Decoded.feat \cap {"unicode", "malformed", "unsupported", "lone_backslash", "quoted_ws"} = {}

\* C8: such a text is decoded without error with every escape pair
\* replaced by the one character it stands for, and that character taken
\* as it is: the step that resolves an escape closes the escape and leaves
\* the quote state, the percent state, the formatted flag and the
\* whitespace run untouched.
C8_EscapeResolution ==
    /\ [](C8_Case => /\ pc # "raised"
                     /\ pc = "returned" => result = Decoded.out)
    /\ [][(pc = "scan" /\ active_escape /\ pc' = "scan")
            => /\ ~active_escape'
               /\ active_quote' = active_quote
               /\ active_percent' = active_percent
               /\ formatted' = formatted
               /\ space_count' = 0]_vars

C8_Witness ==
    /\ pc = "returned"
    /\ C8_Case
    /\ \E k \in 1..(Len(xmltext) - 2) :
        /\ xmltext[k] = Backslash
        /\ xmltext[k + 1] = Backslash
        /\ xmltext[k + 2] \in {Ch_n, Ch_u}
    /\ {Backslash, Ch_n} \subseteq Range(result) \/ {Backslash, Ch_u} \subseteq Range(result)

\* ------------------------------------------------------------------------
\* C9: unicode escape
\* ------------------------------------------------------------------------
\* The stored text has unicode escapes whose captured characters (4, or
\* the 0 to 3 that are left before the end of the text) are all hex digits.
C9_Case ==
    /\ xmltext # Absent
    /\ "unicode" \in Decoded.feat
    /\ Decoded.feat \cap {"malformed", "unsupported", "lone_backslash", "quoted_ws"} = {}

\* C9: such a text is decoded without error, each escape replaced by the
\* one code point its digits (zero-padded on the left to 4) denote, the
\* digits consumed unscanned, and the EOF marker never among them.
C9_UnicodeEscape ==
    C9_Case => /\ pc # "raised"
               /\ pc = "returned" => result = Decoded.out
               /\ pc = "scan" => text[Len(text)] = EOF

C9_Witness ==
    /\ pc = "returned"
    /\ C9_Case
    /\ Len(xmltext) = 5
    /\ xmltext[1] = Backslash
    /\ xmltext[2] = Ch_u
    /\ result = <<CodePointOf(SubSeq(xmltext, 3, 5), 0)>>
    /\ result # <<0>>

\* ------------------------------------------------------------------------
\* C10: the encoder
\* ------------------------------------------------------------------------
Image(c) ==
    IF c = Backslash THEN <<Backslash, Backslash>>
    ELSE IF c = Newline THEN <<Backslash, Ch_n>>
    ELSE IF c = Tab THEN <<Backslash, Ch_t>>
    ELSE IF c = SQuote THEN <<Backslash, SQuote>>
    ELSE IF c = DQuote THEN <<Backslash, DQuote>>
    ELSE <<c>>

RECURSIVE Images(_)
Images(s) == IF s = <<>> THEN <<>> ELSE Image(Head(s)) \o Images(Tail(s))

\* C10: the text written for a logical string is the concatenation of the
\* images of its characters, behind one more backslash when the string
\* starts with '@'.
C10_Encoder ==
    (written /\ logical # Absent)
        => xmltext = (IF startswith(logical, At) THEN <<Backslash>> ELSE <<>>) \o Images(logical)

C10_Witness ==
    /\ written
    /\ logical # Absent
    /\ Len(logical) = 3
    /\ logical[1] = At
    /\ Backslash \in Range(logical)
    /\ Range(logical) \cap {Newline, Tab, SQuote, DQuote} # {}
    /\ Len(xmltext) = 6

\* ------------------------------------------------------------------------
\* C11: termination
\* ------------------------------------------------------------------------
\* The distance from the cursor to the end of the buffer.
Distance == Len(text) - i

\* A call that is inside the loop ends, by a return or by an exception.
C11_CallEnds == (pc = "scan") ~> (pc \in {"returned", "raised"})

\* Every iteration that stays in the loop brings the cursor strictly
\* closer to the end of the buffer, which it never passes.
C11_DistanceDecreases ==
    /\ [](pc = "scan" => Distance >= 0)
    /\ [][(pc = "scan" /\ pc' = "scan") => Distance' < Distance]_vars

\* C11 as stated: the scan of every input ends, the distance to the end of
\* the buffer decreases at every iteration, and the loop makes at most
\* len(input) + 1 iterations.
C11_TerminationAsStated ==
    (pc \in {"scan", "returned", "raised"} /\ xmltext # Absent)
        => iterations <= Len(xmltext) + 1

\* C11 amended: the same, with at most len(t) + 1 iterations for t the
\* input after the replacement of '<' and '>' by their entities.
C11_Termination ==
    /\ C11_CallEnds
    /\ C11_DistanceDecreases
    /\ []((pc \in {"scan", "returned", "raised"} /\ xmltext # Absent)
            => iterations + (IF pc = "raised" THEN 0 ELSE Distance)
                   <= Len(EntityEncode(xmltext)) + 1)

C11_Witness ==
    /\ pc = "returned"
    /\ xmltext # Absent
    /\ Lt \in Range(xmltext)
    /\ \E k \in 1..(Len(xmltext) - 1) : xmltext[k] = Space /\ xmltext[k + 1] = Space
    /\ iterations > Len(xmltext) + 1
    /\ iterations = Len(EntityEncode(xmltext)) + 1

\* ------------------------------------------------------------------------
\* C12: trailing lone percent
\* ------------------------------------------------------------------------
\* C12: when the only '%' of the text is its last character, the formatted
\* flag is off at the end of the scan.
C12_TrailingLonePercent ==
    (/\ pc = "returned"
     /\ xmltext # Absent
     /\ Len(xmltext) >= 1
     /\ xmltext[Len(xmltext)] = Percent
     /\ Percent \notin Range(SubSeq(xmltext, 1, Len(xmltext) - 1)))
        => ~formatted

\* ------------------------------------------------------------------------
\* C13: the trailing run under an unterminated quote
\* ------------------------------------------------------------------------
\* The text has no backslash and a quote that is never closed, with literal
\* whitespace after it other than a run of one tab or newline.
C13_Case ==
    /\ xmltext # Absent
    /\ Backslash \notin Range(xmltext)
    /\ {"unterminated", "quoted_ws"} \subseteq Decoded.feat
    /\ "quoted_single" \notin Decoded.feat

\* C13: such a text is decoded with the run of 2 or more that ends the text
\* replaced by one space, and every run that a character follows while the
\* quote is open kept as it is.
C13_UnterminatedTrailingRun ==
    C13_Case => /\ pc # "raised"
                /\ pc = "returned" => result = Decoded.out

C13_Witness ==
    /\ pc = "returned"
    /\ C13_Case
    /\ Len(xmltext) = 6
    /\ xmltext[1] = DQuote
    /\ {xmltext[2], xmltext[3], xmltext[5], xmltext[6]} \subseteq WHITESPACE
    /\ xmltext[4] \notin WHITESPACE
    /\ result = <<xmltext[2], xmltext[3], xmltext[4], Space>>

\* ------------------------------------------------------------------------
\* C14: the escape-opening backslash
\* ------------------------------------------------------------------------
Count(s, ch) == Cardinality({k \in 1..Len(s) : s[k] = ch})

\* C14: a text that is decoded, one that ends with a lone backslash
\* included, gives as many backslashes as it has double-backslash pairs
\* and unicode escapes of the backslash: no backslash that opens an escape
\* is in the output.
C14_OpeningBackslashNotEmitted ==
    (pc = "returned" /\ xmltext # Absent /\ "malformed" \notin Decoded.feat)
        => Count(result, Backslash) = Count(Decoded.out, Backslash)

\* ------------------------------------------------------------------------
\* C15: detection of a format specifier
\* ------------------------------------------------------------------------
\* C15: at the end of the scan of a text that is decoded (all its '%' are
\* then unescaped, and the first one switches the percent state on) the
\* formatted flag is on exactly when a '%' that switched the percent state
\* on has a character of the text after it, whatever that character is.
C15_FormatDetection ==
    (pc = "returned" /\ xmltext # Absent)
        => (formatted <=> \E k \in 1..(Len(xmltext) - 1) : xmltext[k] = Percent)

\* ------------------------------------------------------------------------
\* C16: quotes are structural
\* ------------------------------------------------------------------------
\* The text has double quotes, no run of one tab or newline inside a quoted
\* span and no backslash at its end, and all its escapes are valid.
C16_Case ==
    /\ xmltext # Absent
    /\ DQuote \in Range(xmltext)
    /\ Decoded.feat \cap {"malformed", "unsupported", "lone_backslash", "quoted_single"} = {}

\* C16: such a text is decoded with each unescaped double quote removed
\* and nothing else lost or doubled, the only double quotes of the output
\* being those of the escapes, and the quote state at the end is the
\* parity of the unescaped double quotes.
C16_QuotesStructural ==
    C16_Case => /\ pc # "raised"
                /\ pc = "returned"
                     => /\ result = Decoded.out
                        /\ active_quote <=> ("unterminated" \in Decoded.feat)

C16_Witness ==
    /\ pc = "returned"
    /\ C16_Case
    /\ xmltext = <<DQuote, Backslash, DQuote>>
    /\ result = <<DQuote>>
    /\ active_quote

\* ------------------------------------------------------------------------
\* C17: cursor and EOF marker
\* ------------------------------------------------------------------------
\* The scan state after the whitespace section of the iteration to come.
AfterWhitespace == HandleWhitespace(Scan, GetItem(text, i))

\* C17: in the loop the cursor is inside the buffer (at its end when the
\* loop is left), the run counted and the backslash of an open escape lie
\* before the cursor, the whitespace section leaves the cursor on the
\* character read, the EOF marker is the last element of the buffer and
\* its only marker, and the string returned is the buffer without it.
C17_CursorAndSentinel ==
    /\ pc = "scan"
         => /\ 0 <= i /\ i <= Len(text)
            /\ Len(text) >= 1
            /\ text[Len(text)] = EOF
            /\ Count(text, EOF) = 1
            /\ space_count <= i
            /\ \A k \in (i - space_count + 1)..i : text[k] \in WHITESPACE
            /\ active_escape => i >= 1 /\ text[i] = Backslash
            /\ i < Len(text)
                 => /\ 0 <= AfterWhitespace.i
                    /\ AfterWhitespace.i < Len(AfterWhitespace.text)
                    /\ GetItem(AfterWhitespace.text, AfterWhitespace.i) = GetItem(text, i)
    /\ (pc = "returned" /\ xmltext # Absent)
         => /\ text = result \o <<EOF>>
            /\ EOF \notin Range(result)
            /\ i = Len(text)

C17_Witness ==
    /\ pc = "returned"
    /\ xmltext # Absent
    /\ Len(xmltext) = 7
    /\ xmltext[2] = Backslash
    /\ xmltext[3] = Ch_u
    /\ Len(result) = 2
    /\ text = result \o <<EOF>>

\* ------------------------------------------------------------------------
\* C18: what settarget writes, gettarget reads
\* ------------------------------------------------------------------------
\* C18: the text written for a logical string is decoded without an error,
\* with the quote state off throughout and the escape state off at the end.
C18_WrittenIsReadable ==
    (written /\ logical # Absent)
        => /\ pc # "raised"
           /\ ~active_quote
           /\ pc = "returned" => ~active_escape

C18_Witness ==
    /\ pc = "returned"
    /\ written
    /\ logical # Absent
    /\ Len(logical) = 3
    /\ {Backslash, DQuote} \subseteq Range(logical)
    /\ logical[3] = Backslash

\* ------------------------------------------------------------------------
\* C19: the extended round trip
\* ------------------------------------------------------------------------
\* C19: a logical string with no '<', no '>' and no two adjacent spaces is
\* read back unchanged after it was written.
C19_ExtendedRoundTrip ==
    (/\ pc = "returned" /\ written /\ logical # Absent
     /\ Range(logical) \cap {Lt, Gt} = {}
     /\ NoAdjacentSpaces(logical))
        => result = logical

C19_Witness ==
    /\ pc = "returned"
    /\ written
    /\ logical # Absent
    /\ Len(logical) = 3
    /\ logical[1] \in {At, Space}
    /\ logical[2] = Backslash
    /\ logical[3] \in {Ch_n, Ch_u, Newline, Tab, DQuote}
    /\ result = logical

====
